---- MODULE Spec2Model ----
(***************************************************************************)
(* Model of portfolio_optimizer.py: the curve loader, the metrics          *)
(* calculator, the portfolio combiner and the weight-space optimizer.      *)
(*                                                                         *)
(* Numbers.  Python floats are modelled by exact rationals <<n, d>>        *)
(* (d > 0, lowest terms).  A square root cannot be written exactly, so     *)
(* std_dev and volatility are carried as their squares and sharpe_ratio    *)
(* as a sign with a squared magnitude; every comparison the code makes on  *)
(* them is decided exactly on that form.  The one place where rounding     *)
(* decides the control flow is the 0.01 tolerance test on a sum of         *)
(* weights: 0.99 and 1.01 are not floats, so a sum that is ideally         *)
(* at distance 0.01 from 1.0 is computed just inside or just outside.      *)
(* That outcome is a nondeterministic choice of the model.                 *)
(***************************************************************************)
EXTENDS Integers, Sequences, FiniteSets, TLC

VARIABLES mode, strategies, weights, initial_capital, weight_step, top_n,
          pc, out, weight_combinations, raw_kept, inside, i, results, returned

vars == <<mode, strategies, weights, initial_capital, weight_step, top_n,
          pc, out, weight_combinations, raw_kept, inside, i, results, returned>>

(***************************************************************************)
(* Bounds of the model.                                                    *)
(***************************************************************************)
MaxStrategies == 2
MaxTopN == 2

(***************************************************************************)
(* Exact rational arithmetic standing for the float arithmetic.            *)
(***************************************************************************)
Abs(x) == IF x < 0 THEN -x ELSE x

RECURSIVE Gcd(_, _)
Gcd(a, b) == IF b = 0 THEN a ELSE Gcd(b, a % b)

Rat(n, d) ==
    LET g == Gcd(Abs(n), Abs(d))
        s == IF d < 0 THEN -1 ELSE 1
    IN  <<s * (n \div g), s * (d \div g)>>

Zero == <<0, 1>>
One == <<1, 1>>
Hundred == <<100, 1>>

RAdd(x, y) ==
    LET g == Gcd(x[2], y[2])
    IN  Rat(x[1] * (y[2] \div g) + y[1] * (x[2] \div g), (x[2] \div g) * y[2])

RNeg(x) == <<-x[1], x[2]>>

RSub(x, y) == RAdd(x, RNeg(y))

RMul(x, y) ==
    LET g1 == Gcd(Abs(x[1]), y[2])
        g2 == Gcd(Abs(y[1]), x[2])
    IN  Rat((x[1] \div g1) * (y[1] \div g2), (x[2] \div g2) * (y[2] \div g1))

RInv(x) == IF x[1] < 0 THEN <<-x[2], -x[1]>> ELSE <<x[2], x[1]>>

RDiv(x, y) == RMul(x, RInv(y))

(* a/b < c/d for non-negative fractions, by their continued fractions, so  *)
(* that no product is formed.                                              *)
RECURSIVE PosLess(_, _, _, _)
PosLess(a, b, c, d) ==
    IF a \div b # c \div d THEN a \div b < c \div d
    ELSE IF c % d = 0 THEN FALSE
    ELSE IF a % b = 0 THEN TRUE
    ELSE PosLess(d, c % d, b, a % b)

RLess(x, y) ==
    IF x[1] < 0
    THEN IF y[1] < 0 THEN PosLess(-y[1], y[2], -x[1], x[2]) ELSE TRUE
    ELSE IF y[1] < 0 THEN FALSE ELSE PosLess(x[1], x[2], y[1], y[2])

RAbs(x) == <<Abs(x[1]), x[2]>>

RECURSIVE RSum(_)
RSum(s) == IF s = <<>> THEN Zero ELSE RAdd(RSum(SubSeq(s, 1, Len(s) - 1)), s[Len(s)])

(* A float that may be NaN. *)
Num(r) == [nan |-> FALSE, v |-> r]
NaN == [nan |-> TRUE, v |-> Zero]

(***************************************************************************)
(* The trading_results directory: one artifact per strategy.  A strategy   *)
(* (ticker, strategy_type) is only ever a lookup key, so it is modelled    *)
(* by a name.  rows are (date, Portfolio_Value) pairs in ascending date    *)
(* order with positive values.                                             *)
(***************************************************************************)
StrategyRefs == {"RISE", "DIP", "FLAT", "ONE", "MISSING", "NODATE", "NOVALUE"}

ResultsDir == [s \in StrategyRefs |->
    CASE s = "RISE" ->
           [exists |-> TRUE, columns |-> {"Date", "Portfolio_Value"},
            rows |-> << <<1, 1>>, <<2, 2>>, <<3, 3>> >>]
      [] s = "DIP" ->
           [exists |-> TRUE, columns |-> {"Date", "Portfolio_Value"},
            rows |-> << <<1, 2>>, <<2, 1>>, <<3, 2>> >>]
      [] s = "FLAT" ->
           [exists |-> TRUE, columns |-> {"Date", "Portfolio_Value"},
            rows |-> << <<2, 2>>, <<3, 2>>, <<4, 2>> >>]
      [] s = "ONE" ->
           [exists |-> TRUE, columns |-> {"Date", "Portfolio_Value"},
            rows |-> << <<4, 3>> >>]
      [] s = "MISSING" ->
           [exists |-> FALSE, columns |-> {}, rows |-> <<>>]
      [] s = "NODATE" ->
           [exists |-> TRUE, columns |-> {"Portfolio_Value"},
            rows |-> << <<1, 1>>, <<2, 2>>, <<3, 3>> >>]
      [] OTHER ->
           [exists |-> TRUE, columns |-> {"Date"},
            rows |-> << <<1, 1>>, <<2, 2>>, <<3, 3>> >>]]

(***************************************************************************)
(* load_portfolio_history: None when the file is absent; df['Date'] raises *)
(* KeyError when the column is absent; otherwise the frame indexed by date.*)
(***************************************************************************)
load_portfolio_history(ref) ==
    LET a == ResultsDir[ref]
    IN  IF ~a.exists
        THEN [kind |-> "None", index |-> <<>>, has_value |-> FALSE, values |-> <<>>]
        ELSE IF "Date" \notin a.columns
        THEN [kind |-> "KeyError", index |-> <<>>, has_value |-> FALSE, values |-> <<>>]
        ELSE [kind |-> "df",
              index |-> [t \in 1..Len(a.rows) |-> a.rows[t][1]],
              has_value |-> "Portfolio_Value" \in a.columns,
              values |-> [t \in 1..Len(a.rows) |-> a.rows[t][2]]]

(***************************************************************************)
(* calculate_portfolio_metrics                                             *)
(***************************************************************************)
RiskFree == 2
TradingDays == 252

(* pct_change of one step, in percent: NaN for 0/0, which dropna removes. *)
PctChange(prev, cur) ==
    IF prev = Zero
    THEN NaN
    ELSE Num(RMul(RSub(RDiv(cur, prev), One), Hundred))

RECURSIVE DropNa(_)
DropNa(s) ==
    IF s = <<>> THEN <<>>
    ELSE IF s[1].nan THEN DropNa(Tail(s))
    ELSE <<s[1].v>> \o DropNa(Tail(s))

DailyReturns(series) ==
    DropNa([t \in 1..(Len(series) - 1) |-> PctChange(series[t], series[t + 1])])

RECURSIVE SumSq(_, _)
SumSq(s, mean) ==
    IF s = <<>> THEN Zero
    ELSE RAdd(SumSq(Tail(s), mean), RMul(RSub(s[1], mean), RSub(s[1], mean)))

(* Series.std(): the sample deviation (ddof = 1), NaN on fewer than two    *)
(* values.  The result is the square of std_dev.                           *)
StdSq(s) ==
    IF Len(s) < 2
    THEN NaN
    ELSE LET mean == RDiv(RSum(s), <<Len(s), 1>>)
         IN  Num(RDiv(SumSq(s, mean), <<Len(s) - 1, 1>>))

RMax(x, y) == IF RLess(x, y) THEN y ELSE x
RMin(x, y) == IF RLess(y, x) THEN y ELSE x

RECURSIVE CumMax(_, _)
CumMax(series, t) == IF t = 1 THEN series[1] ELSE RMax(CumMax(series, t - 1), series[t])

Drawdown(series, t) ==
    LET peak == CumMax(series, t)
    IN  IF peak = Zero THEN NaN
        ELSE Num(RMul(RDiv(RSub(series[t], peak), peak), Hundred))

RECURSIVE MinOf(_)
MinOf(s) == IF Len(s) = 1 THEN s[1] ELSE RMin(s[1], MinOf(Tail(s)))

MaxDrawdown(series) ==
    LET d == DropNa([t \in 1..Len(series) |-> Drawdown(series, t)])
    IN  IF d = <<>> THEN NaN ELSE Num(MinOf(d))

Sign(x) == IF x[1] < 0 THEN -1 ELSE IF x[1] = 0 THEN 0 ELSE 1

SharpeZero == [sgn |-> 0, sq |-> Zero]

(* std_dev > 0 is false for NaN *)
StdPositive(std_sq) == ~std_sq.nan /\ std_sq.v[1] > 0

(* SharpeRatio with the zero-volatility branch returning the raw excess.    *)
SharpeRatioUnguarded(total_return, std_sq) ==
    LET excess == RSub(total_return, <<RiskFree, 1>>)
    IN  IF StdPositive(std_sq)
        THEN [sgn |-> Sign(excess),
              sq  |-> RDiv(RMul(excess, excess), RMul(std_sq.v, <<TradingDays, 1>>))]
        ELSE [sgn |-> Sign(excess), sq |-> RMul(excess, excess)]

SharpeRatio(total_return, std_sq) ==
    IF StdPositive(std_sq)
    THEN LET excess == RSub(total_return, <<RiskFree, 1>>)
         IN  [sgn |-> Sign(excess),
              sq  |-> RDiv(RMul(excess, excess), RMul(std_sq.v, <<TradingDays, 1>>))]
    ELSE SharpeZero

calculate_portfolio_metrics(series, capital) ==
    IF Len(series) = 0
    THEN [kind |-> "None"]
    ELSE LET final_value == series[Len(series)]
             total_return == RMul(RDiv(RSub(final_value, capital), capital), Hundred)
             std_sq == StdSq(DailyReturns(series))
         IN  [kind |-> "metrics",
              final_value |-> final_value,
              total_return |-> total_return,
              std_dev_sq |-> std_sq,
              max_drawdown |-> MaxDrawdown(series),
              sharpe_ratio |-> SharpeRatio(total_return, std_sq),
              volatility_sq |-> IF std_sq.nan THEN NaN
                                ELSE Num(RMul(std_sq.v, <<TradingDays, 1>>))]

(***************************************************************************)
(* combine_portfolios                                                      *)
(***************************************************************************)
Tolerance == <<1, 100>>

(* |sum - 1.0| against 0.01 as the floats decide it: rounds_in tells on    *)
(* which side a sum ideally at distance exactly 0.01 is computed.          *)
Distance(ws) == RAbs(RSub(RSum(ws), One))

AtBoundary(ws) == Distance(ws) = Tolerance

(* ExceedsTolerance without the abs(): only a sum that is too large.       *)
ExceedsOneSided(ws, rounds_in) ==
    \/ RLess(Tolerance, RSub(RSum(ws), One))
    \/ AtBoundary(ws) /\ ~rounds_in

(* line 76: abs(sum(weights) - 1.0) > 0.01 *)
ExceedsTolerance(ws, rounds_in) ==
    \/ RLess(Tolerance, Distance(ws))
    \/ AtBoundary(ws) /\ ~rounds_in

(* Index.intersection on ascending indexes: the dates of the first that    *)
(* the other has, in the order of the first.                               *)
InIndex(date, index) == \E t \in 1..Len(index) : index[t] = date

RECURSIVE Intersection(_, _)
Intersection(a, b) ==
    IF a = <<>> THEN <<>>
    ELSE IF InIndex(a[1], b) THEN <<a[1]>> \o Intersection(Tail(a), b)
    ELSE Intersection(Tail(a), b)

RECURSIVE CommonDates(_, _)
CommonDates(portfolios, n) ==
    IF n = 1 THEN portfolios[1].index
    ELSE Intersection(CommonDates(portfolios, n - 1), portfolios[n].index)

(* df.loc[date, 'Portfolio_Value'] *)
Loc(df, date) == df.values[CHOOSE t \in 1..Len(df.index) : df.index[t] = date]

(* Normalized rebasing on the first row of the file instead of the first   *)
(* common date.                                                            *)
NormalizedByFirstRow(df, common_dates, capital) ==
    [t \in 1..Len(common_dates) |->
        RMul(RDiv(<<Loc(df, common_dates[t]), 1>>, <<df.values[1], 1>>), capital)]

(* lines 102-106 for one strategy: restrict to the common dates, rebase on *)
(* the first restricted value, scale by the capital and by the weight.     *)
Normalized(df, common_dates, capital) ==
    [t \in 1..Len(common_dates) |->
        RMul(RDiv(<<Loc(df, common_dates[t]), 1>>, <<Loc(df, common_dates[1]), 1>>),
             capital)]

(* CombinedValue applying weights[0] to every strategy.                    *)
RECURSIVE CombinedValueFirstWeight(_, _, _, _, _)
CombinedValueFirstWeight(portfolios, ws, common_dates, capital, n) ==
    IF n = 0
    THEN [t \in 1..Len(common_dates) |-> Zero]
    ELSE LET acc == CombinedValueFirstWeight(portfolios, ws, common_dates, capital, n - 1)
             nv == [t \in 1..Len(common_dates) |->
                      RMul(RDiv(<<Loc(portfolios[n], common_dates[t]), 1>>,
                                <<Loc(portfolios[n], common_dates[1]), 1>>), capital)]
         IN  [t \in 1..Len(common_dates) |-> RAdd(acc[t], RMul(nv[t], ws[1]))]

(* CombinedValue dividing every weight by the sum of the weights first.    *)
RECURSIVE CombinedValueRenormalized(_, _, _, _, _)
CombinedValueRenormalized(portfolios, ws, common_dates, capital, n) ==
    IF n = 0
    THEN [t \in 1..Len(common_dates) |-> Zero]
    ELSE LET acc == CombinedValueRenormalized(portfolios, ws, common_dates, capital, n - 1)
             nv == [t \in 1..Len(common_dates) |->
                      RMul(RDiv(<<Loc(portfolios[n], common_dates[t]), 1>>,
                                <<Loc(portfolios[n], common_dates[1]), 1>>), capital)]
         IN  [t \in 1..Len(common_dates) |->
                 RAdd(acc[t], RMul(nv[t], RDiv(ws[n], RSum(ws))))]

RECURSIVE CombinedValue(_, _, _, _, _)
CombinedValue(portfolios, ws, common_dates, capital, n) ==
    IF n = 0
    THEN [t \in 1..Len(common_dates) |-> Zero]
    ELSE LET acc == CombinedValue(portfolios, ws, common_dates, capital, n - 1)
             nv == Normalized(portfolios[n], common_dates, capital)
         IN  [t \in 1..Len(common_dates) |-> RAdd(acc[t], RMul(nv[t], ws[n]))]

Failure(kind, nloads) == [kind |-> kind, nloads |-> nloads]

combine_portfolios(strats, ws, capital, rounds_in) ==
    IF ExceedsTolerance(ws, rounds_in)
    THEN Failure("None", 0)
    ELSE
    LET n == Len(strats)
        loaded == [k \in 1..n |-> load_portfolio_history(strats[k])]
        bad == {k \in 1..n : loaded[k].kind # "df"}
        first_bad == CHOOSE k \in bad : \A j \in bad : k <= j
    IN  IF bad # {}
        THEN Failure(loaded[first_bad].kind, first_bad)
        ELSE IF n = 0
        THEN Failure("IndexError", 0)
        ELSE
        LET common_dates == CommonDates(loaded, n)
            raising == {k \in 1..n : ~loaded[k].has_value \/ k > Len(ws)}
            first_raising == CHOOSE k \in raising : \A j \in raising : k <= j
        IN  IF Len(common_dates) = 0
            THEN Failure("None", n)
            ELSE IF raising # {}
            THEN Failure(IF ~loaded[first_raising].has_value
                         THEN "KeyError" ELSE "IndexError", n)
            ELSE
            LET combined_value == CombinedValue(loaded, ws, common_dates, capital, n)
                metrics == calculate_portfolio_metrics(combined_value, capital)
            IN  IF metrics.kind = "None"
                THEN Failure("None", n)
                ELSE [kind |-> "metrics",
                      nloads |-> n,
                      final_value |-> metrics.final_value,
                      total_return |-> metrics.total_return,
                      std_dev_sq |-> metrics.std_dev_sq,
                      max_drawdown |-> metrics.max_drawdown,
                      sharpe_ratio |-> metrics.sharpe_ratio,
                      volatility_sq |-> metrics.volatility_sq,
                      strategies |-> strats,
                      weights |-> ws,
                      portfolio_series |-> combined_value]

Raised(kind) == kind \in {"KeyError", "IndexError"}

(***************************************************************************)
(* optimize_portfolio                                                      *)
(***************************************************************************)
Ceil(x) == -((-x[1]) \div x[2])

(* Arange stopping at 1.0: the grid then lacks the weight 1.0.              *)
ArangeExclusive(step) ==
    [k \in 1..Ceil(RDiv(One, step)) |-> RMul(<<k - 1, 1>>, step)]

(* np.arange(0, 1.0 + weight_step, weight_step): ceil((stop - start)/step) *)
(* values start + k * step.                                                *)
Arange(step) ==
    [k \in 1..Ceil(RDiv(RAdd(One, step), step)) |-> RMul(<<k - 1, 1>>, step)]

(* itertools.product(weight_range, repeat = n): the rightmost position     *)
(* advances fastest; one empty tuple when n = 0.                           *)
RECURSIVE Product(_, _)
Product(range, n) ==
    IF n = 0
    THEN << <<>> >>
    ELSE LET rest == Product(range, n - 1)
         IN  [p \in 1..(Len(range) * Len(rest)) |->
                 <<range[((p - 1) \div Len(rest)) + 1]>> \o rest[((p - 1) % Len(rest)) + 1]]

(* line 142: abs(sum(weights) - 1.0) < 0.01; ins holds the tuples at the   *)
(* ideal boundary whose computed sum falls inside.                         *)
WithinTolerance(ws, ins) ==
    \/ RLess(Distance(ws), Tolerance)
    \/ AtBoundary(ws) /\ ws \in ins

(* lines 141-145: the tuples passing the filter, in enumeration order *)
Keep(tuples, ins) ==
    LET kept == {p \in 1..Len(tuples) : WithinTolerance(tuples[p], ins)}
    IN  [k \in 1..Cardinality(kept) |->
            tuples[CHOOSE p \in kept : Cardinality({q \in kept : q <= p}) = k]]

(* line 144: np.array(weights) / sum(weights) *)
Normalize(ws) == [k \in 1..Len(ws) |-> RDiv(ws[k], RSum(ws))]

BoundaryTuples(tuples) == {tuples[p] : p \in {q \in 1..Len(tuples) : AtBoundary(tuples[q])}}

(* sharpe_ratio of a < sharpe_ratio of b *)
SharpeLess(a, b) ==
    \/ a.sgn < b.sgn
    \/ a.sgn = 1 /\ b.sgn = 1 /\ RLess(a.sq, b.sq)
    \/ a.sgn = -1 /\ b.sgn = -1 /\ RLess(b.sq, a.sq)

(* Insert placing an element in front of the earlier elements of equal key.*)
RECURSIVE InsertBeforeTies(_, _)
InsertBeforeTies(sorted, x) ==
    IF sorted = <<>> THEN <<x>>
    ELSE IF ~SharpeLess(x.sharpe_ratio, sorted[1].sharpe_ratio)
    THEN <<x>> \o sorted
    ELSE <<sorted[1]>> \o InsertBeforeTies(Tail(sorted), x)

(* SortDesc without reverse = True: ascending.                             *)
RECURSIVE InsertAscending(_, _)
InsertAscending(sorted, x) ==
    IF sorted = <<>> THEN <<x>>
    ELSE IF SharpeLess(x.sharpe_ratio, sorted[1].sharpe_ratio)
    THEN <<x>> \o sorted
    ELSE <<sorted[1]>> \o InsertAscending(Tail(sorted), x)

RECURSIVE SortAscending(_)
SortAscending(s) ==
    IF s = <<>> THEN <<>>
    ELSE InsertAscending(SortAscending(SubSeq(s, 1, Len(s) - 1)), s[Len(s)])

(* list.sort(key = sharpe_ratio, reverse = True): stable, so an element    *)
(* goes behind every earlier element whose key is not smaller.             *)
RECURSIVE Insert(_, _)
Insert(sorted, x) ==
    IF sorted = <<>> THEN <<x>>
    ELSE IF SharpeLess(sorted[1].sharpe_ratio, x.sharpe_ratio)
    THEN <<x>> \o sorted
    ELSE <<sorted[1]>> \o Insert(Tail(sorted), x)

RECURSIVE SortDesc(_)
SortDesc(s) ==
    IF s = <<>> THEN <<>>
    ELSE Insert(SortDesc(SubSeq(s, 1, Len(s) - 1)), s[Len(s)])

(* results[:top_n] with Python's slice semantics *)
Slice(s, k) ==
    IF k >= 0
    THEN SubSeq(s, 1, IF k < Len(s) THEN k ELSE Len(s))
    ELSE SubSeq(s, 1, IF Len(s) + k > 0 THEN Len(s) + k ELSE 0)

(***************************************************************************)
(* Inputs                                                                  *)
(***************************************************************************)
SeqsUpTo(S, n) == UNION {[1..k -> S] : k \in 0..n}

WeightValues == {<<0, 1>>, <<2, 5>>, <<99, 200>>, <<3, 5>>, <<199, 200>>, <<1, 1>>}

(* initial_capital = 20000 by default; --capital of main, by default too *)
DefaultCapital == <<20000, 1>>

Capitals == {<<100, 1>>, DefaultCapital}

(* weight_step = 1/m; the step 0.01 only on a single strategy *)
StepsFor(n) == IF n <= 1 THEN {<<1, 1>>, <<1, 2>>, <<1, 100>>} ELSE {<<1, 1>>, <<1, 2>>, <<1, 4>>}

NoOut == [kind |-> "none yet", nloads |-> 0]

InitCall ==
    /\ pc = "ready"
    /\ out = NoOut
    /\ weight_combinations = <<>>
    /\ raw_kept = <<>>
    /\ inside = {}
    /\ i = 0
    /\ results = <<>>
    /\ returned = <<>>
    /\ strategies \in SeqsUpTo(StrategyRefs, MaxStrategies)

Init ==
    /\ InitCall
    /\ \/ /\ mode = "combine"
          /\ initial_capital \in Capitals
          /\ weights \in SeqsUpTo(WeightValues, MaxStrategies)
          /\ weight_step = One
          /\ top_n = 0
       \/ /\ mode = "custom"
          /\ initial_capital = DefaultCapital
          /\ strategies # <<>>
          /\ weights \in SeqsUpTo(WeightValues, MaxStrategies) \ {<<>>}
          /\ weight_step = One
          /\ top_n = 0
       \/ /\ mode = "optimize"
          /\ initial_capital \in Capitals
          /\ weights = <<>>
          /\ weight_step \in StepsFor(Len(strategies))
          /\ top_n \in (-1)..MaxTopN

(* A direct call of combine_portfolios. *)
Combine ==
    /\ mode = "combine"
    /\ pc = "ready"
    /\ \E rounds_in \in BOOLEAN :
         out' = combine_portfolios(strategies, weights, initial_capital, rounds_in)
    /\ pc' = IF Raised(out'.kind) THEN "raised" ELSE "done"
    /\ UNCHANGED <<mode, strategies, weights, initial_capital, weight_step, top_n,
                   weight_combinations, raw_kept, inside, i, results, returned>>

(* main with --custom_weights: lines 202-219. *)
MainCustom ==
    /\ mode = "custom"
    /\ pc = "ready"
    /\ IF Len(weights) # Len(strategies)
       THEN out' = Failure("Error", 0)
       ELSE \E rounds_in \in BOOLEAN :
              out' = combine_portfolios(strategies, weights, initial_capital, rounds_in)
    /\ pc' = IF Raised(out'.kind) THEN "raised" ELSE "done"
    /\ UNCHANGED <<mode, strategies, weights, initial_capital, weight_step, top_n,
                   weight_combinations, raw_kept, inside, i, results, returned>>

(* optimize_portfolio, lines 134-147: the weight grid. *)
OptimizeStart ==
    /\ mode = "optimize"
    /\ pc = "ready"
    /\ LET tuples == Product(Arange(weight_step), Len(strategies))
       IN  \E ins \in SUBSET BoundaryTuples(tuples) :
              /\ inside' = ins
              /\ raw_kept' = Keep(tuples, ins)
              /\ weight_combinations' =
                    [p \in 1..Len(raw_kept') |-> Normalize(raw_kept'[p])]
    /\ i' = 0
    /\ pc' = "sweep"
    /\ UNCHANGED <<mode, strategies, weights, initial_capital, weight_step, top_n,
                   out, results, returned>>

(* optimize_portfolio, lines 151-157: one candidate of the sweep. *)
SweepStep ==
    /\ pc = "sweep"
    /\ i < Len(weight_combinations)
    /\ LET metrics == combine_portfolios(strategies, weight_combinations[i + 1],
                                         initial_capital, TRUE)
       IN  /\ out' = metrics
           /\ pc' = IF Raised(metrics.kind) THEN "raised" ELSE "sweep"
           /\ results' = IF metrics.kind = "metrics"
                         THEN Append(results, metrics) ELSE results
    /\ i' = i + 1
    /\ UNCHANGED <<mode, strategies, weights, initial_capital, weight_step, top_n,
                   weight_combinations, raw_kept, inside, returned>>

(* optimize_portfolio, lines 159-162: sort and truncate.  results keeps    *)
(* the evaluation order; returned is the sorted, truncated list.           *)
SweepFinish ==
    /\ pc = "sweep"
    /\ i = Len(weight_combinations)
    /\ returned' = Slice(SortDesc(results), top_n)
    /\ pc' = "done"
    /\ UNCHANGED <<mode, strategies, weights, initial_capital, weight_step, top_n,
                   out, weight_combinations, raw_kept, inside, i, results>>

Next == Combine \/ MainCustom \/ OptimizeStart \/ SweepStep \/ SweepFinish

Spec == Init /\ [][Next]_vars

(***************************************************************************)
(* Properties                                                              *)
(***************************************************************************)
Min(a, b) == IF a < b THEN a ELSE b

HasRef(name) == \E k \in 1..Len(strategies) : strategies[k] = name

SameLength == Len(weights) = Len(strategies)

Perms(n) == {f \in [1..n -> 1..n] : \A a, b \in 1..n : a # b => f[a] # f[b]}

Permute(s, f) == [k \in 1..Len(s) |-> s[f[k]]]

PerformanceMetrics(o) ==
    <<o.final_value, o.total_return, o.std_dev_sq, o.max_drawdown,
      o.volatility_sq, o.sharpe_ratio>>

(* every metrics record the program holds in this state *)
MetricsSeen ==
    (IF out.kind = "metrics" THEN {out} ELSE {})
        \cup {results[p] : p \in 1..Len(results)}
        \cup {returned[p] : p \in 1..Len(returned)}

IsFlat(series) == \A t \in 1..Len(series) : series[t] = series[1]

SameSharpe(a, b) ==
    /\ ~SharpeLess(a.sharpe_ratio, b.sharpe_ratio)
    /\ ~SharpeLess(b.sharpe_ratio, a.sharpe_ratio)

(* position of a result in the evaluation order of the sweep *)
EvalPos(r) == CHOOSE p \in 1..Len(results) :
                 results[p] = r /\ \A q \in 1..(p - 1) : results[q] # r

Succeeded ==
    {p \in 1..Len(weight_combinations) :
        combine_portfolios(strategies, weight_combinations[p],
                           initial_capital, TRUE).kind = "metrics"}

(* C1: when optimize_portfolio returns with a cap top_n >= 0, the returned *)
(* sequence is non-increasing in sharpe_ratio over every adjacent pair and *)
(* its length is min(top_n, number of candidates whose combine_portfolios  *)
(* call succeeded).                                                        *)
C1_SortedTopK ==
    (mode = "optimize" /\ pc = "done" /\ top_n >= 0) =>
        /\ \A a \in 1..(Len(returned) - 1) :
              ~SharpeLess(returned[a].sharpe_ratio, returned[a + 1].sharpe_ratio)
        /\ Len(returned) = Min(top_n, Cardinality(Succeeded))

(* a sweep whose evaluation order was not the ranked order, cut to two *)
C1_Witness ==
    /\ mode = "optimize" /\ pc = "done" /\ top_n = 2
    /\ Len(results) = 3 /\ Len(returned) = 2
    /\ SharpeLess(results[1].sharpe_ratio, results[3].sharpe_ratio)
    /\ SharpeLess(returned[2].sharpe_ratio, returned[1].sharpe_ratio)

(* C2: if a requested strategy has no backing artifact, combine_portfolios *)
(* returns the failure signal None, and optimize_portfolio drops every     *)
(* candidate (each references the strategy) and returns an empty ranking.  *)
C2_MissingArtifactFails ==
    /\ (mode \in {"combine", "custom"} /\ pc # "ready" /\ SameLength
          /\ HasRef("MISSING")) => out.kind = "None"
    /\ (mode = "optimize" /\ HasRef("MISSING")) =>
           /\ pc # "raised"
           /\ results = <<>>
           /\ returned = <<>>

(* C3: in a sweep every failure of one candidate evaluation is caught: the *)
(* candidate is dropped, the sweep goes on and optimize_portfolio returns; *)
(* it never ends by an exception.                                          *)
C3_SweepNeverAborts ==
    mode = "optimize" =>
        /\ pc # "raised"
        /\ (pc = "sweep" /\ i > 0 /\ out.kind # "metrics") => out.kind = "None"

(* C4 as claimed: combine_portfolios returns the failure signal, before    *)
(* loading any curve, whenever the weight sum is off by more than 0.01 or  *)
(* the number of weights differs from the number of strategies.            *)
C4_CombineChecksLength ==
    (mode = "combine" /\ pc # "ready"
        /\ (RLess(<<1, 100>>, RAbs(RSub(RSum(weights), One))) \/ ~SameLength)) =>
        /\ out.kind = "None"
        /\ out.nloads = 0

(* C4 amended: combine_portfolios returns the failure signal, before       *)
(* loading any curve, whenever the weight sum is off by more than 0.01,    *)
(* whatever the number of weights; a number of weights that differs from   *)
(* the number of strategies is rejected by main before combine_portfolios  *)
(* is called, so through main it never yields metrics.                     *)
C4_SumInCombineLengthInMain ==
    /\ (mode = "combine" /\ pc # "ready"
          /\ RLess(<<1, 100>>, RAbs(RSub(RSum(weights), One)))) =>
           (out.kind = "None" /\ out.nloads = 0)
    /\ (mode = "custom" /\ pc # "ready" /\ SameLength
          /\ RLess(<<1, 100>>, RAbs(RSub(RSum(weights), One)))) =>
           (out.kind = "None" /\ out.nloads = 0)
    /\ (mode = "custom" /\ pc # "ready" /\ ~SameLength) =>
           (out.kind = "Error" /\ out.nloads = 0 /\ pc = "done")

(* main turns away two weights summing to 1.0 given for one real strategy *)
C4_Witness ==
    /\ mode = "custom" /\ pc = "done"
    /\ strategies = <<"RISE">> /\ Len(weights) = 2
    /\ RSum(weights) = One
    /\ out.kind = "Error"

GridTuples ==
    [1..Len(strategies) -> {Rat(k, weight_step[2]) : k \in 0..weight_step[2]}]

(* the computed raw sum is within 0.01 of 1.0 *)
ComputedWithin(t) ==
    LET d == RAbs(RSub(RSum(t), One))
    IN  RLess(d, <<1, 100>>) \/ (d = <<1, 100>> /\ t \in inside)

(* C5: for a step 1/m the candidates of optimize_portfolio are exactly the *)
(* tuples (k1/m, ..., kN/m), ki in 0..m, whose computed raw sum is within  *)
(* 0.01 of 1.0, each once and each divided by its own sum, so that it sums *)
(* to exactly 1.0; step 1.0 on two strategies gives {(0,1), (1,0)}.        *)
C5_GridCandidates ==
    (mode = "optimize" /\ pc # "ready" /\ weight_step[1] = 1) =>
        /\ {raw_kept[p] : p \in 1..Len(raw_kept)} = {t \in GridTuples : ComputedWithin(t)}
        /\ \A p, q \in 1..Len(raw_kept) : p # q => raw_kept[p] # raw_kept[q]
        /\ Len(weight_combinations) = Len(raw_kept)
        /\ \A p \in 1..Len(raw_kept) :
              /\ weight_combinations[p] =
                    [k \in 1..Len(strategies) |-> RDiv(raw_kept[p][k], RSum(raw_kept[p]))]
              /\ RSum(weight_combinations[p]) = One
        /\ (weight_step = One /\ Len(strategies) = 2) =>
              {weight_combinations[p] : p \in 1..Len(weight_combinations)}
                 = {<<Zero, One>>, <<One, Zero>>}

(* a kept tuple whose raw sum is not 1.0 and whose candidate sums to 1.0 *)
C5_Witness ==
    /\ mode = "optimize" /\ pc = "sweep"
    /\ \E p \in 1..Len(raw_kept) :
          /\ RSum(raw_kept[p]) # One
          /\ RSum(weight_combinations[p]) = One

(* C6: every successful combine_portfolios call with one weight per        *)
(* strategy and weights summing to 1.0 returns a blended curve whose first *)
(* value is the initial capital; so does every candidate of a sweep.       *)
C6_FirstValueIsCapital ==
    /\ (mode \in {"combine", "custom"} /\ out.kind = "metrics" /\ SameLength
          /\ RSum(weights) = One) =>
           out.portfolio_series[1] = initial_capital
    /\ \A p \in 1..Len(results) : results[p].portfolio_series[1] = initial_capital

(* two curves on different date ranges, both with weight *)
C6_Witness ==
    /\ mode = "combine" /\ pc = "done" /\ out.kind = "metrics"
    /\ strategies = <<"RISE", "FLAT">>
    /\ weights = << <<2, 5>>, <<3, 5>> >>
    /\ out.portfolio_series[1] = initial_capital

(* C7: permuting the strategies and the weights alike leaves the metrics   *)
(* of combine_portfolios unchanged: the permuted call succeeds as well     *)
(* (the rounding of a sum at distance exactly 0.01 aside) and returns the  *)
(* same final_value, total_return, std_dev, max_drawdown, volatility and   *)
(* sharpe_ratio.                                                           *)
C7_OrderInvariant ==
    (mode \in {"combine", "custom"} /\ out.kind = "metrics" /\ SameLength) =>
        \A f \in Perms(Len(strategies)) : \A r \in BOOLEAN :
            LET o2 == combine_portfolios(Permute(strategies, f), Permute(weights, f),
                                         initial_capital, r)
            IN  /\ r => o2.kind = "metrics"
                /\ RAbs(RSub(RSum(weights), One)) # <<1, 100>> => o2.kind = "metrics"
                /\ o2.kind = "metrics" => PerformanceMetrics(o2) = PerformanceMetrics(out)

(* weights (0.6, 0.4) on two different curves *)
C7_Witness ==
    /\ mode = "combine" /\ pc = "done" /\ out.kind = "metrics"
    /\ strategies = <<"RISE", "DIP">>
    /\ weights = << <<3, 5>>, <<2, 5>> >>

(* C8: sharpe_ratio is 0 whenever the blended curve has zero volatility:   *)
(* a flat curve, a curve of length 1 or 2 (deviation undefined) or any     *)
(* curve whose std_dev is 0; otherwise it is (total_return - 2.0) over     *)
(* (std_dev * sqrt(252)), here by its sign and its square.                 *)
C8_SharpeOfZeroVolatility ==
    \A r \in MetricsSeen :
        LET zero_vol == r.std_dev_sq.nan \/ r.std_dev_sq.v = Zero
            excess == RSub(r.total_return, <<2, 1>>)
        IN  /\ (IsFlat(r.portfolio_series) \/ Len(r.portfolio_series) <= 2 \/ zero_vol) =>
                  r.sharpe_ratio = [sgn |-> 0, sq |-> Zero]
            /\ ~zero_vol =>
                  /\ r.sharpe_ratio.sgn = Sign(excess)
                  /\ RMul(r.sharpe_ratio.sq, RMul(r.std_dev_sq.v, <<252, 1>>))
                        = RMul(excess, excess)

(* a flat curve of three values: the deviation is defined and is 0 *)
C8_Witness ==
    /\ mode = "combine" /\ pc = "done" /\ out.kind = "metrics"
    /\ Len(out.portfolio_series) = 3
    /\ IsFlat(out.portfolio_series)
    /\ ~out.std_dev_sq.nan
    /\ out.sharpe_ratio = [sgn |-> 0, sq |-> Zero]

(* C9: results of equal sharpe_ratio are returned in the order in which    *)
(* their candidates were enumerated, and of the results tied at the cut    *)
(* the earlier enumerated ones survive the truncation to the first top_n.  *)
C9_TiesKeepEnumerationOrder ==
    (mode = "optimize" /\ pc = "done" /\ top_n >= 0) =>
        /\ \A a, b \in 1..Len(returned) :
              (a < b /\ SameSharpe(returned[a], returned[b])
                     /\ returned[a] # returned[b]) =>
                  EvalPos(returned[a]) < EvalPos(returned[b])
        /\ \A p \in 1..Len(results) : \A a \in 1..Len(returned) :
              ((\A b \in 1..Len(returned) : returned[b] # results[p])
                  /\ SameSharpe(results[p], returned[a])) =>
                  EvalPos(returned[a]) < p

(* three tied results, the first two enumerated are the two returned *)
C9_Witness ==
    /\ mode = "optimize" /\ pc = "done" /\ top_n = 2
    /\ Len(results) = 3 /\ Len(returned) = 2
    /\ SameSharpe(results[1], results[2]) /\ SameSharpe(results[2], results[3])
    /\ results[1] # results[2] /\ results[2] # results[3] /\ results[1] # results[3]
    /\ returned = <<results[1], results[2]>>

DatesOf(ref) == {ResultsDir[ref].rows[t][1] : t \in 1..Len(ResultsDir[ref].rows)}

ValueOn(ref, d) ==
    LET rows == ResultsDir[ref].rows
    IN  rows[CHOOSE t \in 1..Len(rows) : rows[t][1] = d][2]

CommonDateSet == {d \in DatesOf(strategies[1]) :
                     \A k \in 1..Len(strategies) : d \in DatesOf(strategies[k])}

(* the t-th common date in ascending order *)
CommonDate(t) == CHOOSE d \in CommonDateSet :
                    Cardinality({e \in CommonDateSet : e <= d}) = t

(* C10: combine_portfolios never renormalizes: for an accepted weight      *)
(* vector w (one weight per strategy) of raw sum S the blended curve is    *)
(* the sum over i of w[i] * rebased_curve[i] with w as given, its first    *)
(* value is S * initial_capital, and the weights attached to the result    *)
(* are the supplied ones; only the grid generation of optimize_portfolio   *)
(* renormalizes, to a sum of exactly 1.0.                                  *)
C10_NoRenormalization ==
    /\ (mode \in {"combine", "custom"} /\ out.kind = "metrics" /\ SameLength) =>
          /\ out.portfolio_series[1] = RMul(RSum(weights), initial_capital)
          /\ out.weights = weights
          /\ Len(out.portfolio_series) = Cardinality(CommonDateSet)
          /\ \A t \in 1..Len(out.portfolio_series) :
                out.portfolio_series[t] =
                   RSum([k \in 1..Len(strategies) |->
                           RMul(weights[k],
                                RMul(RDiv(<<ValueOn(strategies[k], CommonDate(t)), 1>>,
                                          <<ValueOn(strategies[k], CommonDate(1)), 1>>),
                                     initial_capital))])
    /\ (mode = "optimize" /\ pc # "ready") =>
          /\ \A p \in 1..Len(weight_combinations) : RSum(weight_combinations[p]) = One
          /\ \A p \in 1..Len(results) :
                \E q \in 1..Len(weight_combinations) :
                    results[p].weights = weight_combinations[q]

(* weights (0.495, 0.495) are accepted and the curve starts at 0.99 * capital *)
C10_Witness ==
    /\ mode = "combine" /\ pc = "done" /\ out.kind = "metrics"
    /\ strategies = <<"RISE", "DIP">>
    /\ weights = << <<99, 200>>, <<99, 200>> >>
    /\ out.portfolio_series[1] = RMul(<<99, 100>>, initial_capital)
    /\ out.portfolio_series[1] # initial_capital

====
